------------------------------ MODULE Spec2Model ------------------------------
(***************************************************************************)
(* Configuration layering of trunk (src/config/models.rs): the file layer  *)
(* (Trunk.toml), the environment layer and the CLI layers, combined by     *)
(* ConfigOpts::merge.  The model is of the build with the "compression"    *)
(* feature enabled (the second ConfigOpts::merge, whose first five match   *)
(* arms are the same as in the build without the feature).                 *)
(*                                                                         *)
(* Option<T> is a sequence of length at most one: None is <<>>, Some(v) is *)
(* <<v>>.  A PathBuf is [abs, comps]: whether it has a root, and its       *)
(* components.  A Result is [ok |-> TRUE, val |-> v] or                    *)
(* [ok |-> FALSE, err |-> e].                                              *)
(***************************************************************************)
EXTENDS Naturals, Sequences, FiniteSets

VARIABLES
    lesser, greater, merged, mpc,      \* one call of ConfigOpts::merge
    doc, parsed, ppc,                  \* one call of toml::from_slice::<ConfigOpts>
    cmd, config, fs, env,              \* inputs of one resolution call
    cli_build, cli_watch, cli_serve, cli_clean,
    pc, toml_cfg, env_cfg, layer, rtc, err

vars == <<lesser, greater, merged, mpc, doc, parsed, ppc, cmd, config, fs, env,
          cli_build, cli_watch, cli_serve, cli_clean,
          pc, toml_cfg, env_cfg, layer, rtc, err>>

mergeVars == <<lesser, greater, merged, mpc>>
parseVars == <<doc, parsed, ppc>>
callVars  == <<cmd, config, fs, env, cli_build, cli_watch, cli_serve, cli_clean,
               pc, toml_cfg, env_cfg, layer, rtc, err>>

-----------------------------------------------------------------------------
(* Bounds *)

\* longest list (watch.ignore, proxy, compression) drawn as an input
MaxList == 2

-----------------------------------------------------------------------------
(* Option<T> *)

None == <<>>
Some(v) == <<v>>
IsSome(o) == o # <<>>
Unwrap(o) == o[1]
\* Option::or
Or(a, b) == IF IsSome(a) THEN a ELSE b
Opt(S) == {None} \cup {Some(v) : v \in S}

\* sequences over S of length 0..n
SeqUpTo(S, n) == UNION {[1..k -> S] : k \in 0..n}

Ok(v) == [ok |-> TRUE, val |-> v]
Err(e) == [ok |-> FALSE, err |-> e]

-----------------------------------------------------------------------------
(* PathBuf *)

PathOf(a, c) == [abs |-> a, comps |-> c]
is_absolute(p) == p.abs
\* Path::join: an absolute argument replaces the base
join(base, p) == IF is_absolute(p) THEN p ELSE PathOf(base.abs, base.comps \o p.comps)
\* Path::parent: the path without its last component, None for "/" and ""
parent(p) ==
    IF p.comps = <<>> THEN None
    ELSE Some(PathOf(p.abs, SubSeq(p.comps, 1, Len(p.comps) - 1)))

-----------------------------------------------------------------------------
(* The configuration structs *)

ConfigOptsBuild(t, r, d, u) == [target |-> t, release |-> r, dist |-> d, public_url |-> u]
ConfigOptsWatch(i) == [ignore |-> i]
ConfigOptsServe(p, o, b, w) == [port |-> p, open |-> o, proxy_backend |-> b, proxy_rewrite |-> w]
ConfigOptsClean(d, c) == [dist |-> d, cargo |-> c]
ConfigOptsProxy(b, w) == [backend |-> b, rewrite |-> w]
CompressorOptions(l) == [level |-> l]
ConfigOptsCompression(a, o, t, i, e, h, r) ==
    [algorithm |-> a, options |-> o, test |-> t, include |-> i, exclude |-> e,
     threshold |-> h, ratio |-> r]
ConfigOpts(b, w, s, c, p, z) ==
    [build |-> b, watch |-> w, serve |-> s, clean |-> c, proxy |-> p, compression |-> z]

\* #[derive(Default)]
DefaultBuild == ConfigOptsBuild(None, FALSE, None, None)
DefaultWatch == ConfigOptsWatch(None)
DefaultServe == ConfigOptsServe(None, FALSE, None, None)
DefaultClean == ConfigOptsClean(None, FALSE)
DefaultConfigOpts == ConfigOpts(None, None, None, None, None, None)
\* Option::unwrap_or_default
UnwrapOrDefault(o, d) == IF IsSome(o) THEN Unwrap(o) ELSE d

-----------------------------------------------------------------------------
(* ConfigOpts::merge *)

merge_build_not_sticky(l, g) ==
    IF l = None \/ g = None THEN Or(l, g)
    ELSE Some(ConfigOptsBuild(Or(g[1].target, l[1].target), g[1].release,
                              Or(g[1].dist, l[1].dist),
                              Or(g[1].public_url, l[1].public_url)))

merge_build(l, g) ==
    IF l = None /\ g = None THEN None
    ELSE IF l = None \/ g = None THEN Or(l, g)
    ELSE Some(ConfigOptsBuild(Or(g[1].target, l[1].target),
                              IF l[1].release THEN TRUE ELSE g[1].release,
                              Or(g[1].dist, l[1].dist),
                              Or(g[1].public_url, l[1].public_url)))

merge_watch_drops_lesser(l, g) ==
    IF g = None THEN None
    ELSE IF l = None THEN g
    ELSE Some(ConfigOptsWatch(Or(g[1].ignore, l[1].ignore)))

merge_watch(l, g) ==
    IF l = None /\ g = None THEN None
    ELSE IF l = None \/ g = None THEN Or(l, g)
    ELSE Some(ConfigOptsWatch(Or(g[1].ignore, l[1].ignore)))

merge_serve_lesser_port(l, g) ==
    IF l = None \/ g = None THEN Or(l, g)
    ELSE Some(ConfigOptsServe(Or(l[1].port, g[1].port),
                              IF l[1].open THEN TRUE ELSE g[1].open,
                              Or(g[1].proxy_backend, l[1].proxy_backend),
                              Or(g[1].proxy_rewrite, l[1].proxy_rewrite)))

merge_serve(l, g) ==
    IF l = None /\ g = None THEN None
    ELSE IF l = None \/ g = None THEN Or(l, g)
    ELSE Some(ConfigOptsServe(Or(g[1].port, l[1].port),
                              IF l[1].open THEN TRUE ELSE g[1].open,
                              Or(g[1].proxy_backend, l[1].proxy_backend),
                              Or(g[1].proxy_rewrite, l[1].proxy_rewrite)))

merge_clean(l, g) ==
    IF l = None /\ g = None THEN None
    ELSE IF l = None \/ g = None THEN Or(l, g)
    ELSE Some(ConfigOptsClean(Or(g[1].dist, l[1].dist),
                              IF l[1].cargo THEN TRUE ELSE g[1].cargo))

merge_proxy_concat(l, g) ==
    IF l = None \/ g = None THEN Or(l, g)
    ELSE Some(l[1] \o g[1])

\* "No meshing/merging. Only take the greater value."
merge_proxy(l, g) ==
    IF l = None /\ g = None THEN None
    ELSE IF l = None \/ g = None THEN Or(l, g)
    ELSE g

merge_compression(l, g) ==
    IF l = None /\ g = None THEN None
    ELSE IF l = None \/ g = None THEN Or(l, g)
    ELSE g

merge(l, g) ==
    ConfigOpts(merge_build(l.build, g.build),
               merge_watch(l.watch, g.watch),
               merge_serve(l.serve, g.serve),
               merge_clean(l.clean, g.clean),
               merge_proxy(l.proxy, g.proxy),
               merge_compression(l.compression, g.compression))

-----------------------------------------------------------------------------
(* Deserializing a Trunk.toml document (serde derive on the structs).       *)
(* A document is the table the TOML text denotes: [wellformed] tells       *)
(* whether the text is TOML at all, every key may be missing, a bool key   *)
(* is Option<bool> and a compression entry's algorithm is the string as    *)
(* written.                                                                *)

U16Max == 65535
\* the variants of enum Compressor, by their serde names
Compressor == {"gzip", "brotli", "zstd"}

RawBuild(t, r, d, u) == [target |-> t, release |-> r, dist |-> d, public_url |-> u]
RawServe(p, o, b, w) == [port |-> p, open |-> o, proxy_backend |-> b, proxy_rewrite |-> w]
RawClean(d, c) == [dist |-> d, cargo |-> c]
RawProxy(b, w) == [backend |-> b, rewrite |-> w]
RawCompression(a, o, t, i, e, h, r) ==
    [algorithm |-> a, options |-> o, test |-> t, include |-> i, exclude |-> e,
     threshold |-> h, ratio |-> r]
RawDoc(ok, b, w, s, c, p, z) ==
    [wellformed |-> ok, build |-> b, watch |-> w, serve |-> s, clean |-> c,
     proxy |-> p, compression |-> z]

\* #[serde(default)] on a bool field
bool_or_default(o) == IF IsSome(o) THEN Unwrap(o) ELSE FALSE

de_build(o) ==
    IF o = None THEN None
    ELSE Some(ConfigOptsBuild(o[1].target, bool_or_default(o[1].release),
                              o[1].dist, o[1].public_url))
\* port: Option<u16>
de_serve_ok(o) == o = None \/ o[1].port = None \/ Unwrap(o[1].port) <= U16Max
de_serve(o) ==
    IF o = None THEN None
    ELSE Some(ConfigOptsServe(o[1].port, bool_or_default(o[1].open),
                              o[1].proxy_backend, o[1].proxy_rewrite))
de_clean(o) ==
    IF o = None THEN None
    ELSE Some(ConfigOptsClean(o[1].dist, bool_or_default(o[1].cargo)))
\* backend: Url has no default
de_proxy_ok(o) == o = None \/ \A i \in 1..Len(o[1]) : IsSome(o[1][i].backend)
de_proxy(o) ==
    IF o = None THEN None
    ELSE Some([i \in 1..Len(o[1]) |-> ConfigOptsProxy(Unwrap(o[1][i].backend), o[1][i].rewrite)])

de_compression_entry_any_name(e) == IsSome(e.algorithm)

\* algorithm: Compressor has no default and must name a variant
de_compression_entry_ok(e) == IsSome(e.algorithm) /\ Unwrap(e.algorithm) \in Compressor
de_compression_ok(o) == o = None \/ \A i \in 1..Len(o[1]) : de_compression_entry_ok(o[1][i])
de_compression(o) ==
    IF o = None THEN None
    ELSE Some([i \in 1..Len(o[1]) |->
                 [o[1][i] EXCEPT !.algorithm = Unwrap(o[1][i].algorithm)]])

\* toml::from_slice::<ConfigOpts> / toml::from_str::<ConfigOpts>
from_toml(d) ==
    IF /\ d.wellformed
       /\ de_serve_ok(d.serve)
       /\ de_proxy_ok(d.proxy)
       /\ de_compression_ok(d.compression)
    THEN Ok(ConfigOpts(de_build(d.build), d.watch, de_serve(d.serve), de_clean(d.clean),
                       de_proxy(d.proxy), de_compression(d.compression)))
    ELSE Err("toml::de::Error")

-----------------------------------------------------------------------------
(* ConfigOpts::from_file.  The filesystem as this call sees it at the path *)
(* it consults: whether the path exists, whether canonicalize succeeds,    *)
(* whether the file can be read, and the document in it.                   *)

Cwd == PathOf(TRUE, <<"project">>)
DefaultPath == PathOf(FALSE, <<"Trunk.toml">>)
FsState(e, c, r, d) == [exists |-> e, canon_ok |-> c, readable |-> r, doc |-> d]

\* Path::canonicalize of a relative path (no symlinks, no ".." in the inputs)
canonicalize(p) == join(Cwd, p)

absolutize_from_cwd(base, o) ==
    IF IsSome(o) /\ ~is_absolute(Unwrap(o)) THEN Some(join(Cwd, Unwrap(o))) ELSE o

\* if !p.is_absolute() { *p = parent.join(&p); }
absolutize(base, o) ==
    IF IsSome(o) /\ ~is_absolute(Unwrap(o)) THEN Some(join(base, Unwrap(o))) ELSE o

absolutize_all_skipped(base, o) == o

absolutize_all(base, o) ==
    IF o = None THEN None
    ELSE Some([i \in 1..Len(o[1]) |->
                 IF ~is_absolute(o[1][i]) THEN join(base, o[1][i]) ELSE o[1][i]])

\* the closure bodies applied under `if let Some(parent) = path.parent()`
normalize_paths(base, cfg) ==
    [cfg EXCEPT
        !.build = IF cfg.build = None THEN None
                  ELSE Some([cfg.build[1] EXCEPT
                                !.target = absolutize(base, cfg.build[1].target),
                                !.dist = absolutize(base, cfg.build[1].dist)]),
        !.watch = IF cfg.watch = None THEN None
                  ELSE Some([cfg.watch[1] EXCEPT
                                !.ignore = absolutize_all(base, cfg.watch[1].ignore)]),
        !.clean = IF cfg.clean = None THEN None
                  ELSE Some([cfg.clean[1] EXCEPT
                                !.dist = absolutize(base, cfg.clean[1].dist)])]

\* the path from_file reads: the argument or "Trunk.toml", canonicalized when relative
config_path(path) ==
    LET p == IF IsSome(path) THEN Unwrap(path) ELSE DefaultPath
    IN  IF is_absolute(p) THEN p ELSE canonicalize(p)

missing_file_is_error == Err("error reading config file")

\* if !path.exists() { return Ok(Default::default()); }
missing_file == Ok(DefaultConfigOpts)

from_file(path, f) ==
    LET p0 == IF IsSome(path) THEN Unwrap(path) ELSE DefaultPath
        p == config_path(path)
        t == from_toml(f.doc)
    IN  IF ~f.exists THEN missing_file
        ELSE IF ~is_absolute(p0) /\ ~f.canon_ok
            THEN Err("error getting canonical path to Trunk config file")
        ELSE IF ~f.readable THEN Err("error reading config file")
        ELSE IF ~t.ok THEN Err("error reading config file contents as TOML data")
        ELSE IF IsSome(parent(p)) THEN Ok(normalize_paths(Unwrap(parent(p)), t.val))
        ELSE Ok(t.val)

-----------------------------------------------------------------------------
(* ConfigOpts::from_env.  The environment is a record of the TRUNK_*       *)
(* variables, each unset (None) or set to a string; a path variable is the *)
(* PathBuf its string denotes, TRUNK_WATCH_IGNORE the list it splits into, *)
(* and TRUNK_SERVE_PORT the sequence of its characters.                    *)

Digits == <<"0", "1", "2", "3", "4", "5", "6", "7", "8", "9">>
is_digit(c) == \E i \in 1..Len(Digits) : Digits[i] = c
digit_value(c) == (CHOOSE i \in 1..Len(Digits) : Digits[i] = c) - 1

RECURSIVE decimal_value(_)
decimal_value(s) ==
    IF s = <<>> THEN 0
    ELSE 10 * decimal_value(SubSeq(s, 1, Len(s) - 1)) + digit_value(s[Len(s)])

\* u16::from_str
parse_u16(s) ==
    IF s # <<>> /\ (\A i \in 1..Len(s) : is_digit(s[i])) /\ decimal_value(s) <= U16Max
    THEN Ok(decimal_value(s)) ELSE Err("invalid digit")

\* bool::from_str
parse_bool(s) ==
    IF s = "true" THEN Ok(TRUE) ELSE IF s = "false" THEN Ok(FALSE) ELSE Err("invalid bool")

env_bool(o) == IF o = None THEN Ok(FALSE) ELSE parse_bool(Unwrap(o))
env_port(o) ==
    IF o = None THEN Ok(None)
    ELSE IF parse_u16(Unwrap(o)).ok THEN Ok(Some(parse_u16(Unwrap(o)).val))
    ELSE parse_u16(Unwrap(o))

from_env(e) ==
    LET release == env_bool(e.TRUNK_BUILD_RELEASE)
        port == env_port(e.TRUNK_SERVE_PORT)
        open == env_bool(e.TRUNK_SERVE_OPEN)
        cargo == env_bool(e.TRUNK_CLEAN_CARGO)
    IN  IF ~release.ok THEN release
        ELSE IF ~port.ok THEN port
        ELSE IF ~open.ok THEN open
        ELSE IF ~cargo.ok THEN cargo
        ELSE Ok(ConfigOpts(
                Some(ConfigOptsBuild(e.TRUNK_BUILD_TARGET, release.val, e.TRUNK_BUILD_DIST,
                                     e.TRUNK_BUILD_PUBLIC_URL)),
                Some(ConfigOptsWatch(e.TRUNK_WATCH_IGNORE)),
                Some(ConfigOptsServe(port.val, open.val, e.TRUNK_SERVE_PROXY_BACKEND,
                                     e.TRUNK_SERVE_PROXY_REWRITE)),
                Some(ConfigOptsClean(e.TRUNK_CLEAN_DIST, cargo.val)),
                None, None))

env_best_effort(r) ==
    IF r.ok THEN r
    ELSE Ok(ConfigOpts(Some(DefaultBuild), Some(DefaultWatch), Some(DefaultServe),
                       Some(DefaultClean), None, None))

\* .context("error reading trunk env var config")?
env_context(r) == IF r.ok THEN r ELSE Err("error reading trunk env var config")

-----------------------------------------------------------------------------
(* The CLI layers *)

cli_opts_layer_build_replaces(cli, cfg_base) ==
    [cfg_base EXCEPT
        !.build = Some(ConfigOptsBuild(cli.target, cli.release, cli.dist, cli.public_url))]

cli_opts_layer_build(cli, cfg_base) ==
    merge(cfg_base,
          ConfigOpts(Some(ConfigOptsBuild(cli.target, cli.release, cli.dist, cli.public_url)),
                     None, None, None, None, None))

cli_opts_layer_watch(cli, cfg_base) ==
    merge(cfg_base,
          ConfigOpts(None, Some(ConfigOptsWatch(cli.ignore)), None, None, None, None))

cli_opts_layer_serve_adds_proxy(cli, cfg_base) ==
    merge(cfg_base,
          ConfigOpts(None, None,
                     Some(ConfigOptsServe(cli.port, cli.open, cli.proxy_backend,
                                          cli.proxy_rewrite)),
                     None,
                     IF IsSome(cli.proxy_backend)
                     THEN Some(<<ConfigOptsProxy(Unwrap(cli.proxy_backend), cli.proxy_rewrite)>>)
                     ELSE None,
                     None))

cli_opts_layer_serve(cli, cfg_base) ==
    merge(cfg_base,
          ConfigOpts(None, None,
                     Some(ConfigOptsServe(cli.port, cli.open, cli.proxy_backend,
                                          cli.proxy_rewrite)),
                     None, None, None))

cli_opts_layer_clean(cli, cfg_base) ==
    merge(cfg_base,
          ConfigOpts(None, None, None, Some(ConfigOptsClean(cli.dist, cli.cargo)), None, None))

-----------------------------------------------------------------------------
(* Values the inputs are drawn from *)

RelOut == PathOf(FALSE, <<"out">>)
RelIndex == PathOf(FALSE, <<"src", "index.html">>)
AbsSrv == PathOf(TRUE, <<"srv", "out">>)
PathVals == {RelOut, AbsSrv}
UrlVals == {"/", "/assets/"}
PortVals == {8080, 9000}
BackendVals == {"http://a/", "http://b/"}
RewriteVals == {"/api/", "/v1/"}
ProxyA == ConfigOptsProxy("http://a/", None)
ProxyB == ConfigOptsProxy("http://b/", Some("/api/"))
Gzip9 == ConfigOptsCompression("gzip", Some(CompressorOptions(Some(9))), None, None, None, None, None)
Brotli == ConfigOptsCompression("brotli", None, None, None, None, None, None)

BuildVals ==
    {ConfigOptsBuild(t, r, d, u) :
        t \in Opt(PathVals), r \in BOOLEAN, d \in Opt(PathVals), u \in Opt(UrlVals)}
WatchVals == {ConfigOptsWatch(i) : i \in Opt(SeqUpTo(PathVals, MaxList))}
ServeVals ==
    {ConfigOptsServe(p, o, b, w) :
        p \in Opt(PortVals), o \in BOOLEAN, b \in Opt(BackendVals), w \in Opt(RewriteVals)}
CleanVals == {ConfigOptsClean(d, c) : d \in Opt(PathVals), c \in BOOLEAN}
ProxyLists == SeqUpTo({ProxyA, ProxyB}, MaxList)
CompressionLists == SeqUpTo({Gzip9, Brotli}, MaxList)

\* a configuration with every section present
FullConfigOpts ==
    ConfigOpts(Some(ConfigOptsBuild(Some(RelIndex), FALSE, Some(RelOut), None)),
               Some(ConfigOptsWatch(Some(<<RelOut>>))),
               Some(ConfigOptsServe(Some(8080), TRUE, None, Some("/v1/"))),
               Some(ConfigOptsClean(None, TRUE)),
               Some(<<ProxyA>>),
               Some(<<Brotli>>))

\* the inputs of merge: one section ranges over all its values, the others
\* are all absent or all present
MergeInputs ==
    UNION {
        {[bg EXCEPT !.build = v] : v \in Opt(BuildVals)}
        \cup {[bg EXCEPT !.watch = v] : v \in Opt(WatchVals)}
        \cup {[bg EXCEPT !.serve = v] : v \in Opt(ServeVals)}
        \cup {[bg EXCEPT !.clean = v] : v \in Opt(CleanVals)}
        \cup {[bg EXCEPT !.proxy = v] : v \in Opt(ProxyLists)}
        \cup {[bg EXCEPT !.compression = v] : v \in Opt(CompressionLists)}
        : bg \in {DefaultConfigOpts, FullConfigOpts}}

\* documents for from_toml: the compression key ranges over its values
\* (missing, an empty array, arrays of entries), the rest is one of a few tables
RawGzip9 == RawCompression(Some("gzip"), Some(CompressorOptions(Some(9))),
                                  None, None, None, None, None)
RawRatioOnly == RawCompression(None, None, None, None, None, None, Some("0.8"))
RawCompressionEntries ==
    {RawCompression(a, o, None, None, None, None, None) :
        a \in Opt(Compressor \cup {"deflate"}),
        o \in {None, Some(CompressorOptions(None)), Some(CompressorOptions(Some(9)))}}
    \cup {RawRatioOnly}

EmptyDoc == RawDoc(TRUE, None, None, None, None, None, None)
MalformedDoc == RawDoc(FALSE, None, None, None, None, None, None)
\* the document of tests::deserialize_config_opts_compression_none
BuildServeDoc ==
    [EmptyDoc EXCEPT
        !.build = Some(RawBuild(Some(RelIndex), None, Some(PathOf(FALSE, <<"dist">>)),
                                Some("/assets/"))),
        !.serve = Some(RawServe(Some(9000), None, None, None))]
BigPortDoc == [EmptyDoc EXCEPT !.serve = Some(RawServe(Some(70000), None, None, None))]
NoBackendDoc == [EmptyDoc EXCEPT !.proxy = Some(<<RawProxy(None, Some("/api/"))>>)]
ProxyDoc ==
    [EmptyDoc EXCEPT
        !.clean = Some(RawClean(None, Some(TRUE))),
        !.proxy = Some(<<RawProxy(Some("http://a/"), None)>>)]

ParseInputs ==
    {[bg EXCEPT !.compression = z] :
        bg \in {EmptyDoc, MalformedDoc, BuildServeDoc, BigPortDoc, NoBackendDoc, ProxyDoc},
        z \in Opt(SeqUpTo(RawCompressionEntries, MaxList))}

\* the config argument of a resolution call
RelConfig == PathOf(FALSE, <<"sub", "Trunk.toml">>)
AbsConfig == PathOf(TRUE, <<"project", "sub", "Trunk.toml">>)
RootConfig == PathOf(TRUE, <<"Trunk.toml">>)
ConfigArgs == {None, Some(RelConfig), Some(AbsConfig), Some(RootConfig)}

Missing == FsState(FALSE, FALSE, FALSE, EmptyDoc)
NoCanon == FsState(TRUE, FALSE, TRUE, EmptyDoc)
Unreadable == FsState(TRUE, TRUE, FALSE, EmptyDoc)
Present(d) == FsState(TRUE, TRUE, TRUE, d)

\* documents for from_file: every path field ranges over absent, relative
\* and absolute paths
PathDocs ==
    {[EmptyDoc EXCEPT !.build = b, !.watch = w, !.clean = c] :
        b \in Opt({RawBuild(t, None, d, None) : t \in Opt(PathVals), d \in Opt(PathVals)}),
        w \in Opt(WatchVals),
        c \in Opt({RawClean(d, None) : d \in Opt(PathVals)})}
FileInputs == {Missing, NoCanon, Unreadable} \cup {Present(d) : d \in PathDocs \cup {MalformedDoc}}

\* documents, environments and CLI arguments for a resolution call
ReleaseFalseDoc ==
    [EmptyDoc EXCEPT !.build = Some(RawBuild(None, Some(FALSE), Some(RelOut), None))]
StickyDoc ==
    [EmptyDoc EXCEPT
        !.build = Some(RawBuild(Some(RelIndex), Some(TRUE), Some(AbsSrv), None)),
        !.watch = Some(ConfigOptsWatch(Some(<<RelOut>>))),
        !.serve = Some(RawServe(Some(9000), Some(TRUE), None, Some("/v1/"))),
        !.clean = Some(RawClean(Some(RelOut), Some(TRUE))),
        !.proxy = Some(<<RawProxy(Some("http://a/"), None)>>),
        !.compression = Some(<<RawGzip9>>)]
CallDocs == {EmptyDoc, MalformedDoc, ReleaseFalseDoc, StickyDoc, ProxyDoc}
CallFs == {Missing, NoCanon, Unreadable} \cup {Present(d) : d \in CallDocs}

EmptyEnv ==
    [TRUNK_BUILD_TARGET |-> None, TRUNK_BUILD_RELEASE |-> None, TRUNK_BUILD_DIST |-> None,
     TRUNK_BUILD_PUBLIC_URL |-> None, TRUNK_WATCH_IGNORE |-> None,
     TRUNK_SERVE_PORT |-> None, TRUNK_SERVE_OPEN |-> None,
     TRUNK_SERVE_PROXY_BACKEND |-> None, TRUNK_SERVE_PROXY_REWRITE |-> None,
     TRUNK_CLEAN_DIST |-> None, TRUNK_CLEAN_CARGO |-> None]
CallEnvs ==
    {EmptyEnv,
     [EmptyEnv EXCEPT !.TRUNK_BUILD_RELEASE = Some("true")],
     [EmptyEnv EXCEPT !.TRUNK_BUILD_RELEASE = Some("false"),
                      !.TRUNK_BUILD_DIST = Some(PathOf(FALSE, <<"envdist">>)),
                      !.TRUNK_WATCH_IGNORE = Some(<<PathOf(FALSE, <<"tmp">>)>>),
                      !.TRUNK_SERVE_PORT = Some(<<"8", "0", "8", "0">>),
                      !.TRUNK_SERVE_OPEN = Some("true"),
                      !.TRUNK_SERVE_PROXY_BACKEND = Some("http://b/"),
                      !.TRUNK_CLEAN_DIST = Some(PathOf(FALSE, <<"envclean">>)),
                      !.TRUNK_CLEAN_CARGO = Some("true")],
     [EmptyEnv EXCEPT !.TRUNK_BUILD_RELEASE = Some("yes")],
     [EmptyEnv EXCEPT !.TRUNK_SERVE_PORT = Some(<<"7", "0", "0", "0", "0">>)],
     [EmptyEnv EXCEPT !.TRUNK_CLEAN_CARGO = Some("1")]}

CliBuilds ==
    {DefaultBuild,
     [DefaultBuild EXCEPT !.release = TRUE],
     [DefaultBuild EXCEPT !.dist = Some(PathOf(FALSE, <<"clidist">>)), !.public_url = Some("/")],
     [DefaultBuild EXCEPT !.target = Some(AbsSrv), !.release = TRUE]}
CliWatches == {DefaultWatch, ConfigOptsWatch(Some(<<PathOf(FALSE, <<"cliignore">>)>>))}
CliServes ==
    {DefaultServe,
     [DefaultServe EXCEPT !.open = TRUE, !.port = Some(8080)],
     [DefaultServe EXCEPT !.proxy_backend = Some("http://cli/"), !.proxy_rewrite = Some("/api/")]}
CliCleans ==
    {DefaultClean,
     [DefaultClean EXCEPT !.cargo = TRUE],
     [DefaultClean EXCEPT !.dist = Some(PathOf(FALSE, <<"clidist">>))]}

Commands == {"build", "watch", "serve", "clean", "full"}

-----------------------------------------------------------------------------
(* Idle values of the variables a specification does not use *)

IdleMerge ==
    /\ lesser = DefaultConfigOpts /\ greater = DefaultConfigOpts
    /\ merged = DefaultConfigOpts /\ mpc = "idle"

IdleParse == doc = EmptyDoc /\ parsed = Ok(DefaultConfigOpts) /\ ppc = "idle"

IdleCall ==
    /\ cmd = "full" /\ config = None /\ fs = Missing /\ env = EmptyEnv
    /\ cli_build = DefaultBuild /\ cli_watch = DefaultWatch
    /\ cli_serve = DefaultServe /\ cli_clean = DefaultClean
    /\ pc = "idle" /\ toml_cfg = DefaultConfigOpts /\ env_cfg = DefaultConfigOpts
    /\ layer = DefaultConfigOpts /\ rtc = DefaultConfigOpts /\ err = ""

-----------------------------------------------------------------------------
(* SpecMerge: one call of ConfigOpts::merge on drawn inputs *)

InitMerge ==
    /\ lesser \in MergeInputs
    /\ greater \in MergeInputs
    /\ merged = DefaultConfigOpts
    /\ mpc = "call"
    /\ IdleParse
    /\ IdleCall

Merge ==
    /\ mpc = "call"
    /\ merged' = merge(lesser, greater)
    /\ mpc' = "merged"
    /\ UNCHANGED <<lesser, greater, parseVars, callVars>>

NextMerge == Merge
SpecMerge == InitMerge /\ [][NextMerge]_vars

-----------------------------------------------------------------------------
(* SpecParse: one call of toml::from_str::<ConfigOpts> on a drawn document *)

InitParse ==
    /\ doc \in ParseInputs
    /\ parsed = Ok(DefaultConfigOpts)
    /\ ppc = "call"
    /\ IdleMerge
    /\ IdleCall

Parse ==
    /\ ppc = "call"
    /\ parsed' = from_toml(doc)
    /\ ppc' = "parsed"
    /\ UNCHANGED <<doc, mergeVars, callVars>>

NextParse == Parse
SpecParse == InitParse /\ [][NextParse]_vars

-----------------------------------------------------------------------------
(* One resolution call: rtc_build, rtc_watch, rtc_serve, rtc_clean or full. *)
(* pc is the position in the call: "start", "file" after from_file,         *)
(* "base" after from_env and the first merge, "build"/"watch"/"serve"/      *)
(* "clean" after that CLI layer, "done" after the options are handed to the *)
(* runtime configuration, "failed" after a `?` returned the error.          *)

StartCall ==
    /\ pc = "start" /\ toml_cfg = DefaultConfigOpts /\ env_cfg = DefaultConfigOpts
    /\ layer = DefaultConfigOpts /\ rtc = DefaultConfigOpts /\ err = ""

\* let toml_cfg = Self::from_file(path)?;
FromFile ==
    /\ pc = "start"
    /\ LET r == from_file(config, fs)
       IN  IF r.ok
           THEN /\ toml_cfg' = r.val
                /\ pc' = "file"
                /\ err' = err
           ELSE /\ err' = r.err
                /\ pc' = "failed"
                /\ toml_cfg' = toml_cfg
    /\ UNCHANGED <<cmd, config, fs, env, cli_build, cli_watch, cli_serve, cli_clean,
                   env_cfg, layer, rtc, mergeVars, parseVars>>

\* let env_cfg = Self::from_env().context(..)?; let cfg = Self::merge(toml_cfg, env_cfg);
FromEnv ==
    /\ pc = "file"
    /\ LET r == env_context(from_env(env))
       IN  IF r.ok
           THEN /\ env_cfg' = r.val
                /\ layer' = merge(toml_cfg, r.val)
                /\ pc' = "base"
                /\ err' = err
           ELSE /\ err' = r.err
                /\ pc' = "failed"
                /\ UNCHANGED <<env_cfg, layer>>
    /\ UNCHANGED <<cmd, config, fs, env, cli_build, cli_watch, cli_serve, cli_clean,
                   toml_cfg, rtc, mergeVars, parseVars>>

CliStep(from, to, cmds, next) ==
    /\ pc = from
    /\ cmd \in cmds
    /\ layer' = next
    /\ pc' = to
    /\ UNCHANGED <<cmd, config, fs, env, cli_build, cli_watch, cli_serve, cli_clean,
                   toml_cfg, env_cfg, rtc, err, mergeVars, parseVars>>

CliBuild == CliStep("base", "build", {"build", "watch", "serve"}, cli_opts_layer_build(cli_build, layer))
CliWatch == CliStep("build", "watch", {"watch", "serve"}, cli_opts_layer_watch(cli_watch, layer))
CliServe == CliStep("watch", "serve", {"serve"}, cli_opts_layer_serve(cli_serve, layer))
CliClean == CliStep("base", "clean", {"clean"}, cli_opts_layer_clean(cli_clean, layer))

\* the options handed to RtcBuild::new / RtcWatch::new / RtcServe::new / RtcClean::new,
\* or the ConfigOpts that full returns
Finish(from, c, opts) ==
    /\ pc = from
    /\ cmd = c
    /\ rtc' = opts
    /\ pc' = "done"
    /\ UNCHANGED <<cmd, config, fs, env, cli_build, cli_watch, cli_serve, cli_clean,
                   toml_cfg, env_cfg, layer, err, mergeVars, parseVars>>

build_opts(l) == Some(UnwrapOrDefault(l.build, DefaultBuild))
watch_opts(l) == Some(UnwrapOrDefault(l.watch, DefaultWatch))
serve_opts(l) == Some(UnwrapOrDefault(l.serve, DefaultServe))
clean_opts(l) == Some(UnwrapOrDefault(l.clean, DefaultClean))

rtc_build == Finish("build", "build", ConfigOpts(build_opts(layer), None, None, None, None, None))
rtc_watch ==
    Finish("watch", "watch", ConfigOpts(build_opts(layer), watch_opts(layer), None, None, None, None))
rtc_serve ==
    Finish("serve", "serve",
           ConfigOpts(build_opts(layer), watch_opts(layer), serve_opts(layer), None,
                      layer.proxy, None))
rtc_clean == Finish("clean", "clean", ConfigOpts(None, None, None, clean_opts(layer), None, None))
full == Finish("base", "full", layer)

Init ==
    /\ cmd \in Commands
    /\ config \in ConfigArgs
    /\ fs \in CallFs
    /\ env \in CallEnvs
    /\ cli_build \in IF cmd \in {"build", "watch", "serve"} THEN CliBuilds ELSE {DefaultBuild}
    /\ cli_watch \in IF cmd \in {"watch", "serve"} THEN CliWatches ELSE {DefaultWatch}
    /\ cli_serve \in IF cmd = "serve" THEN CliServes ELSE {DefaultServe}
    /\ cli_clean \in IF cmd = "clean" THEN CliCleans ELSE {DefaultClean}
    /\ StartCall
    /\ IdleMerge
    /\ IdleParse

Next ==
    \/ FromFile
    \/ FromEnv
    \/ CliBuild
    \/ CliWatch
    \/ CliServe
    \/ CliClean
    \/ rtc_build
    \/ rtc_watch
    \/ rtc_serve
    \/ rtc_clean
    \/ full

Spec == Init /\ [][Next]_vars

-----------------------------------------------------------------------------
(* SpecFile: one call of ConfigOpts::from_file, the file's path fields      *)
(* ranging over absent, relative and absolute paths                        *)

InitFile ==
    /\ cmd = "full"
    /\ config \in ConfigArgs
    /\ fs \in FileInputs
    /\ env = EmptyEnv
    /\ cli_build = DefaultBuild /\ cli_watch = DefaultWatch
    /\ cli_serve = DefaultServe /\ cli_clean = DefaultClean
    /\ StartCall
    /\ IdleMerge
    /\ IdleParse

NextFile == FromFile
SpecFile == InitFile /\ [][NextFile]_vars

-----------------------------------------------------------------------------
(* Properties of ConfigOpts::merge (SpecMerge) *)

\* C1: merging with the empty configuration on either side is the identity:
\* merge(c, empty) = c and merge(empty, c) = c for every drawn c.
C1_MergeEmptyIsIdentity ==
    mpc = "merged" =>
        /\ (greater = DefaultConfigOpts => merged = lesser)
        /\ (lesser = DefaultConfigOpts => merged = greater)

C1_Witness ==
    /\ mpc = "merged"
    /\ greater = DefaultConfigOpts
    /\ IsSome(lesser.build) /\ lesser.build[1].release
    /\ IsSome(lesser.watch) /\ IsSome(lesser.proxy)
    /\ merged = lesser

\* a sticky flag of a configuration: false when its section is absent
Flag(c, section, field) == IsSome(c[section]) /\ c[section][1][field]
StickyFlags == {<<"build", "release">>, <<"serve", "open">>, <<"clean", "cargo">>}

\* C2: a sticky boolean (build.release, serve.open, clean.cargo) that is true
\* in lesser or in greater is true in merge(lesser, greater).
C2_StickyMonotonic ==
    mpc = "merged" =>
        \A f \in StickyFlags :
            (Flag(lesser, f[1], f[2]) \/ Flag(greater, f[1], f[2])) => Flag(merged, f[1], f[2])

C2_Witness ==
    /\ mpc = "merged"
    /\ IsSome(lesser.build) /\ lesser.build[1].release
    /\ IsSome(greater.build) /\ ~greater.build[1].release
    /\ merged.build[1].release

\* the optional scalar/path fields of the four sub-config sections
OptionalFields ==
    {<<"build", "target">>, <<"build", "dist">>, <<"build", "public_url">>,
     <<"watch", "ignore">>,
     <<"serve", "port">>, <<"serve", "proxy_backend">>, <<"serve", "proxy_rewrite">>,
     <<"clean", "dist">>}

\* C3: when both sides have a section, each optional field of the merged
\* section is greater's value if greater has one, else lesser's value, and
\* is absent only when both are absent.
C3_GreaterWinsPerField ==
    mpc = "merged" =>
        \A f \in OptionalFields :
            (IsSome(lesser[f[1]]) /\ IsSome(greater[f[1]])) =>
                LET l == lesser[f[1]][1][f[2]]
                    g == greater[f[1]][1][f[2]]
                    m == merged[f[1]][1][f[2]]
                IN  /\ IsSome(merged[f[1]])
                    /\ (IsSome(g) => m = g)
                    /\ (~IsSome(g) => m = l)
                    /\ (m = None <=> (l = None /\ g = None))

C3_Witness ==
    /\ mpc = "merged"
    /\ IsSome(lesser.serve) /\ IsSome(greater.serve)
    /\ lesser.serve[1].port = Some(8080) /\ greater.serve[1].port = Some(9000)
    /\ lesser.serve[1].proxy_rewrite = Some("/v1/") /\ greater.serve[1].proxy_rewrite = None
    /\ merged.serve[1].port = Some(9000)
    /\ merged.serve[1].proxy_rewrite = Some("/v1/")

\* C4: the proxy and compression lists are replaced wholesale: the merged
\* list is greater's list if greater has one, else lesser's list, else absent.
C4_ListsReplaceWholesale ==
    mpc = "merged" =>
        \A k \in {"proxy", "compression"} :
            /\ (IsSome(greater[k]) => merged[k] = greater[k])
            /\ (~IsSome(greater[k]) => merged[k] = lesser[k])

C4_Witness ==
    /\ mpc = "merged"
    /\ lesser.proxy = Some(<<ProxyA>>)
    /\ greater.proxy = Some(<<ProxyB>>)
    /\ merged.proxy = Some(<<ProxyB>>)

-----------------------------------------------------------------------------
(* Properties of ConfigOpts::from_file (SpecFile) *)

\* what a path field of the document must have become: the parent directory
\* followed by the components of a relative path, an absolute path as it was
Resolved(dir, o) ==
    IF o = None THEN None
    ELSE IF o[1].abs THEN o
    ELSE Some(PathOf(dir.abs, dir.comps \o o[1].comps))

\* the directory holding the file that a config argument names
ParentDir ==
    IF config = None THEN PathOf(TRUE, <<"project">>)
    ELSE IF config = Some(RootConfig) THEN PathOf(TRUE, <<>>)
    ELSE PathOf(TRUE, <<"project", "sub">>)

\* C5: after a successful load of a file in directory P, every relative path
\* field (build.target, build.dist, each element of watch.ignore, clean.dist)
\* is P joined with the original, every absolute one is unchanged and every
\* absent one is absent.
C5_PathsResolvedAgainstParent ==
    (pc = "file" /\ fs.exists) =>
        LET d == fs.doc
            P == ParentDir
        IN  /\ IsSome(toml_cfg.build) <=> IsSome(d.build)
            /\ IsSome(toml_cfg.watch) <=> IsSome(d.watch)
            /\ IsSome(toml_cfg.clean) <=> IsSome(d.clean)
            /\ IsSome(d.build) =>
                /\ toml_cfg.build[1].target = Resolved(P, d.build[1].target)
                /\ toml_cfg.build[1].dist = Resolved(P, d.build[1].dist)
            /\ IsSome(d.clean) => toml_cfg.clean[1].dist = Resolved(P, d.clean[1].dist)
            /\ IsSome(d.watch) =>
                LET was == d.watch[1].ignore
                    now == toml_cfg.watch[1].ignore
                IN  /\ IsSome(now) <=> IsSome(was)
                    /\ IsSome(was) =>
                        /\ Len(now[1]) = Len(was[1])
                        /\ \A i \in 1..Len(was[1]) : Some(now[1][i]) = Resolved(P, Some(was[1][i]))

\* /project/sub/Trunk.toml with dist = "out" and an absolute clean.dist
C5_Witness ==
    /\ pc = "file"
    /\ config = Some(AbsConfig)
    /\ IsSome(fs.doc.build) /\ fs.doc.build[1].dist = Some(RelOut)
    /\ fs.doc.build[1].target = None
    /\ IsSome(fs.doc.clean) /\ fs.doc.clean[1].dist = Some(AbsSrv)
    /\ IsSome(fs.doc.watch) /\ fs.doc.watch[1].ignore = Some(<<RelOut, AbsSrv>>)
    /\ toml_cfg.build[1].dist = Some(PathOf(TRUE, <<"project", "sub", "out">>))
    /\ toml_cfg.build[1].target = None
    /\ toml_cfg.clean[1].dist = Some(AbsSrv)
    /\ toml_cfg.watch[1].ignore = Some(<<PathOf(TRUE, <<"project", "sub", "out">>), AbsSrv>>)

-----------------------------------------------------------------------------
(* Properties of a resolution call (Spec) *)

\* a sticky flag as the layers' inputs set it
FileFlag(section, field) ==
    fs.exists /\ IsSome(fs.doc[section]) /\ fs.doc[section][1][field] = Some(TRUE)
EnvFlag(var) == env[var] = Some("true")

\* C6: over the chain file, environment over file, CLI over that, a sticky
\* flag (release, open, cargo) is true in the resolved options whenever the
\* file, the environment or the CLI sets it; so release = false in the file,
\* TRUNK_BUILD_RELEASE = true and no --release flag resolve to release = true.
C6_StickyAcrossLayers ==
    pc = "done" =>
        /\ (cmd \in {"build", "watch", "serve", "full"}
            /\ (FileFlag("build", "release") \/ EnvFlag("TRUNK_BUILD_RELEASE")
                \/ cli_build.release))
           => rtc.build[1].release
        /\ (cmd \in {"serve", "full"}
            /\ (FileFlag("serve", "open") \/ EnvFlag("TRUNK_SERVE_OPEN") \/ cli_serve.open))
           => rtc.serve[1].open
        /\ (cmd \in {"clean", "full"}
            /\ (FileFlag("clean", "cargo") \/ EnvFlag("TRUNK_CLEAN_CARGO") \/ cli_clean.cargo))
           => rtc.clean[1].cargo

C6_Witness ==
    /\ pc = "done"
    /\ cmd = "build"
    /\ fs = Present(ReleaseFalseDoc)
    /\ env.TRUNK_BUILD_RELEASE = Some("true")
    /\ ~cli_build.release
    /\ rtc.build[1].release

FileErrors ==
    {"error getting canonical path to Trunk config file",
     "error reading config file",
     "error reading config file contents as TOML data"}

\* C7: with no config argument and no Trunk.toml in the current directory,
\* from_file succeeds with the all-default configuration and the call goes
\* on with the environment and CLI layers alone.
C7_MissingDefaultFileIsEmpty ==
    (config = None /\ ~fs.exists /\ pc # "start") =>
        /\ toml_cfg = DefaultConfigOpts
        /\ err \notin FileErrors
        /\ pc = "failed" => err = "error reading trunk env var config"
        /\ pc = "base" => layer = env_cfg
        /\ pc \notin {"file", "failed"} => (layer.proxy = None /\ layer.compression = None)
        /\ (pc = "done" /\ cmd = "build") =>
               /\ rtc.build[1].release = (EnvFlag("TRUNK_BUILD_RELEASE") \/ cli_build.release)
               /\ rtc.build[1].dist = Or(cli_build.dist, env.TRUNK_BUILD_DIST)

C7_Witness ==
    /\ config = None
    /\ fs = Missing
    /\ pc = "done"
    /\ cmd = "serve"
    /\ env.TRUNK_SERVE_OPEN = Some("true")
    /\ rtc.serve[1].open
    /\ rtc.build[1].dist = Some(PathOf(FALSE, <<"clidist">>))

\* C8: with a config argument whose file is missing or unreadable, the call
\* returns no configuration: it fails, and with the file-read error.
C8_ExplicitMissingFails ==
    (IsSome(config) /\ (~fs.exists \/ ~fs.readable)) =>
        /\ pc # "done"
        /\ (pc = "failed" /\ fs.exists) => err = "error reading config file"

\* the layers' failures, from the inputs
FileLayerFails ==
    /\ fs.exists
    /\ \/ (config = None \/ ~config[1].abs) /\ ~fs.canon_ok
       \/ ~fs.readable
       \/ ~from_toml(fs.doc).ok
EnvLayerFails == ~from_env(env).ok

C9_State ==
    /\ (pc # "start" /\ FileLayerFails) => (pc = "failed" /\ err \in FileErrors)
    /\ (pc \notin {"start", "file"} /\ EnvLayerFails) => pc = "failed"
    /\ pc = "failed" =>
        /\ FileLayerFails \/ EnvLayerFails
        /\ ~FileLayerFails => err = "error reading trunk env var config"
        /\ layer = DefaultConfigOpts
        /\ rtc = DefaultConfigOpts
    /\ pc = "done" => (~FileLayerFails /\ ~EnvLayerFails)

\* C9: a failure of the file layer or of the environment layer ends the call
\* of every resolver with an error: no runtime configuration is produced, no
\* CLI layer is merged afterwards, and when both layers would fail the error
\* is the file layer's.
C9_LayerErrorAborts ==
    /\ []C9_State
    /\ [][pc = "failed" => (pc' = "failed" /\ layer' = layer /\ rtc' = rtc)]_vars

C9_Witness ==
    /\ cmd = "serve"
    /\ fs = Present(MalformedDoc)
    /\ env.TRUNK_BUILD_RELEASE = Some("yes")
    /\ pc = "failed"
    /\ err = "error reading config file contents as TOML data"
    /\ rtc = DefaultConfigOpts

-----------------------------------------------------------------------------
(* Properties of deserializing a document (SpecParse) *)

HasCompressionEntries(d) == IsSome(d.compression) /\ Len(d.compression[1]) > 0
LacksAlgorithm(d) ==
    IsSome(d.compression) /\ \E i \in 1..Len(d.compression[1]) : d.compression[1][i].algorithm = None
GzipDoc == [EmptyDoc EXCEPT !.compression = Some(<<RawGzip9>>)]

\* what C10 says of the entries, whichever way the section's presence is read
C10_Entries ==
    /\ LacksAlgorithm(doc) => ~parsed.ok
    /\ (parsed.ok /\ IsSome(parsed.val.compression)) =>
           /\ Len(parsed.val.compression[1]) = Len(doc.compression[1])
           /\ \A i \in 1..Len(parsed.val.compression[1]) :
                  /\ parsed.val.compression[1][i].algorithm \in {"gzip", "brotli", "zstd"}
                  /\ Some(parsed.val.compression[1][i].algorithm) = doc.compression[1][i].algorithm
                  /\ parsed.val.compression[1][i].options = doc.compression[1][i].options
    /\ doc = GzipDoc =>
           /\ parsed.ok
           /\ Len(parsed.val.compression[1]) = 1
           /\ parsed.val.compression[1][1].algorithm = "gzip"
           /\ parsed.val.compression[1][1].options = Some(CompressorOptions(Some(9)))

\* C10 as stated: the compression section is present exactly when the
\* document contains compression entries; an entry without an algorithm in
\* {gzip, brotli, zstd} fails the whole parse; algorithm = "gzip" with
\* options.level = 9 parses into one such entry.
C10_PresentIffEntries ==
    ppc = "parsed" =>
        /\ parsed.ok => (IsSome(parsed.val.compression) <=> HasCompressionEntries(doc))
        /\ C10_Entries

\* C10 as amended: the compression section is present exactly when the
\* document has a compression key, whose array may be empty; the rest as stated.
C10_PresentIffKey ==
    ppc = "parsed" =>
        /\ parsed.ok => (IsSome(parsed.val.compression) <=> IsSome(doc.compression))
        /\ C10_Entries

C10_Witness ==
    /\ ppc = "parsed"
    /\ doc = [BuildServeDoc EXCEPT !.compression = Some(<<RawRatioOnly>>)]
    /\ ~parsed.ok

-----------------------------------------------------------------------------
(* Where the resolved paths come from (Spec) *)

\* the path fields of the options a command resolves: section, field, the
\* CLI argument that may set it (None when the command takes no such
\* argument) and the environment variable that may set it
PathSources ==
    (IF cmd \in {"build", "watch", "serve", "full"}
     THEN {<<"build", "target", IF cmd = "full" THEN None ELSE cli_build.target,
             env.TRUNK_BUILD_TARGET>>,
           <<"build", "dist", IF cmd = "full" THEN None ELSE cli_build.dist,
             env.TRUNK_BUILD_DIST>>}
     ELSE {})
    \cup (IF cmd \in {"watch", "serve", "full"}
          THEN {<<"watch", "ignore", IF cmd = "full" THEN None ELSE cli_watch.ignore,
                  env.TRUNK_WATCH_IGNORE>>}
          ELSE {})
    \cup (IF cmd \in {"clean", "full"}
          THEN {<<"clean", "dist", IF cmd = "full" THEN None ELSE cli_clean.dist,
                  env.TRUNK_CLEAN_DIST>>}
          ELSE {})

\* every path of a configuration has a root
AllPathsAbsolute(c) ==
    /\ IsSome(c.build) =>
        /\ IsSome(c.build[1].target) => c.build[1].target[1].abs
        /\ IsSome(c.build[1].dist) => c.build[1].dist[1].abs
    /\ (IsSome(c.watch) /\ IsSome(c.watch[1].ignore)) =>
        \A i \in 1..Len(c.watch[1].ignore[1]) : c.watch[1].ignore[1][i].abs
    /\ (IsSome(c.clean) /\ IsSome(c.clean[1].dist)) => c.clean[1].dist[1].abs

\* C11: paths are made absolute in the file layer alone, before the first
\* merge: a path given by the CLI or the environment reaches the resolved
\* options exactly as given, and a path the resolved options take from the
\* file layer is the file layer's, absolute since from_file returned.
C11_OnlyFilePathsNormalized ==
    /\ pc \notin {"start", "failed"} => AllPathsAbsolute(toml_cfg)
    /\ pc = "done" =>
        \A f \in PathSources :
            LET r == rtc[f[1]][1][f[2]]
            IN  IF IsSome(f[3]) THEN r = f[3]
                ELSE IF IsSome(f[4]) THEN r = f[4]
                ELSE IF IsSome(toml_cfg[f[1]]) THEN r = toml_cfg[f[1]][1][f[2]]
                ELSE r = None

C11_Witness ==
    /\ pc = "done"
    /\ cmd = "watch"
    /\ config = Some(AbsConfig)
    /\ fs = Present(StickyDoc)
    /\ env.TRUNK_BUILD_DIST = Some(PathOf(FALSE, <<"envdist">>))
    /\ cli_build.target = None /\ cli_build.dist = None
    /\ cli_watch.ignore = Some(<<PathOf(FALSE, <<"cliignore">>)>>)
    /\ rtc.build[1].target = Some(PathOf(TRUE, <<"project", "sub", "src", "index.html">>))
    /\ rtc.build[1].dist = Some(PathOf(FALSE, <<"envdist">>))
    /\ rtc.watch[1].ignore = Some(<<PathOf(FALSE, <<"cliignore">>)>>)

-----------------------------------------------------------------------------
(* What a CLI layer leaves alone (Spec) *)

\* the step that applies the CLI layer of a section changes no other
\* section and neither list
CliFrame(from, to, section) ==
    (pc = from /\ pc' = to) =>
        /\ \A k \in {"build", "watch", "serve", "clean", "proxy", "compression"} \ {section} :
               layer'[k] = layer[k]
        /\ IsSome(layer'[section])

\* the proxy list of the file layer, from the document read
FileProxy ==
    IF fs.exists /\ IsSome(fs.doc.proxy)
    THEN Some([i \in 1..Len(fs.doc.proxy[1]) |->
                 ConfigOptsProxy(fs.doc.proxy[1][i].backend[1], fs.doc.proxy[1][i].rewrite)])
    ELSE None

C12_State ==
    /\ pc \in {"base", "build", "watch", "serve", "clean"} =>
           (layer.proxy = toml_cfg.proxy /\ layer.compression = toml_cfg.compression)
    /\ (pc = "done" /\ cmd = "serve") => (rtc.proxy = toml_cfg.proxy /\ rtc.proxy = FileProxy)

\* C12: a CLI layer changes only its own section: the other sections and the
\* proxy and compression lists stay those of the base; so the proxy list
\* handed to the resolved serve configuration is the file layer's list (or
\* absent), whatever the environment and the CLI supply.
C12_CliLayerFrame ==
    /\ []C12_State
    /\ [][/\ CliFrame("base", "build", "build")
          /\ CliFrame("build", "watch", "watch")
          /\ CliFrame("watch", "serve", "serve")
          /\ CliFrame("base", "clean", "clean")]_vars

C12_Witness ==
    /\ pc = "done"
    /\ cmd = "serve"
    /\ fs = Present(ProxyDoc)
    /\ env.TRUNK_SERVE_PROXY_BACKEND = Some("http://b/")
    /\ cli_serve.proxy_backend = Some("http://cli/")
    /\ rtc.serve[1].proxy_backend = Some("http://cli/")
    /\ rtc.proxy = Some(<<ProxyA>>)

=============================================================================
